---- MODULE Spec2Model ----
(***************************************************************************)
(* Model of src/bilibili.py: the WBI signing functions (getMixinKey,       *)
(* encWbi) and the BiliDownloader client (session state, persisted store,  *)
(* five request operations).                                               *)
(*                                                                         *)
(* Strings are sequences of character codes (ASCII), so that indexing,     *)
(* lexical ordering, filtering and percent-encoding are computed.          *)
(***************************************************************************)
EXTENDS Integers, Sequences, FiniteSets, TLC

VARIABLES
    \* ---- signing functions (SpecSign) ----
    img_key_arg,    \* img_key argument of encWbi / first half of getMixinKey's orig
    sub_key_arg,    \* sub_key argument of encWbi / second half of orig
    paramsA,        \* a parameter dict, as its insertion-ordered item list
    paramsB,        \* the same name-to-value pairs, inserted in another order
    curr_time,      \* round(time.time()) seen by encWbi
    mixRes,         \* outcome of getMixinKey(img_key_arg + sub_key_arg)
    wbiA,           \* outcome of encWbi(paramsA, ...)
    wbiB,           \* outcome of encWbi(paramsB, ...)
    \* ---- one BiliDownloader and its store (Spec) ----
    store,          \* the file self.cfg: whether it exists, and its JSON document
    phase,          \* "none": no object; "ready": __init__ returned; "failed": __init__ raised
    requestHeader,  \* self.requestHeader
    cookies,        \* self.cookies
    img_key,        \* self.img_key
    sub_key,        \* self.sub_key
    last_update,    \* self.last_update
    now,            \* time.time()
    ticks,          \* number of clock advances so far
    \* history of the last step taken
    ctor,           \* if it was __init__: what it loaded and requested
    last,           \* if it was a request operation: its response and its outcome
    flushed,        \* the fields it passed to flushConfig, with their values
    \* ---- two BiliDownloader objects sharing the store (SpecConc) ----
    fpc,            \* per object: "idle", or "merge" once flushConfig has read the file
    user_info,      \* per object: flushConfig's local user_info
    kvArg,          \* per object: flushConfig's argument kv
    flushes,        \* number of flushConfig calls begun
    acked,          \* per field: the value of the latest completed flushConfig naming it (history)
    lastKv          \* the argument of the latest completed flushConfig (history)

signVars == <<img_key_arg, sub_key_arg, paramsA, paramsB, curr_time, mixRes, wbiA, wbiB>>

memVars == <<requestHeader, cookies, img_key, sub_key, last_update>>

clientVars == <<store, phase, memVars, now, ticks, ctor, last, flushed>>

concVars == <<fpc, user_info, kvArg, flushes, acked, lastKv>>

vars == <<signVars, clientVars, concVars>>

(***************************************************************************)
(* Bounds                                                                  *)
(***************************************************************************)
MaxKeyLen == 33         \* longest img_key drawn (real keys have 32 characters)
MaxParams == 2          \* most parameters in a drawn parameter dict
MaxTicks == 2           \* most clock advances in a run
MaxFlushes == 3         \* most flushConfig calls in a run of two objects
MaxAudio == 2           \* most audio variants in a play-URL response

(***************************************************************************)
(* Generic helpers                                                         *)
(***************************************************************************)
Min(a, b) == IF a < b THEN a ELSE b

RECURSIVE Concat(_)
\* ''.join(seqs)
Concat(seqs) == IF seqs = <<>> THEN <<>> ELSE Head(seqs) \o Concat(Tail(seqs))

(***************************************************************************)
(* getMixinKey                                                             *)
(***************************************************************************)
mixinKeyEncTab ==
    <<46, 47, 18, 2, 53, 8, 23, 32, 15, 50, 10, 31, 58, 3, 45, 35, 27, 43, 5, 49,
      33, 9, 42, 19, 29, 28, 14, 39, 12, 38, 41, 13, 37, 48, 7, 16, 24, 55, 40,
      61, 26, 17, 0, 1, 60, 51, 30, 4, 22, 25, 54, 21, 56, 59, 6, 63, 57, 62, 11,
      36, 20, 34, 44, 52>>

\* outcome of a call: a returned value or a raised exception
Returned(v) == [ok |-> TRUE, val |-> v, err |-> ""]
Raised(e) == [ok |-> FALSE, val |-> <<>>, err |-> e]
NotCalled == [ok |-> FALSE, val |-> <<>>, err |-> "not called"]

\* a plausible slip: slicing the table before indexing, mixinKeyEncTab[:32]
getMixinKeySliceFirst(orig) ==
    IF \E k \in 1..32 : mixinKeyEncTab[k] >= Len(orig)
    THEN Raised("IndexError")
    ELSE Returned([k \in 1..32 |-> orig[mixinKeyEncTab[k] + 1]])

\* reduce(lambda s, i: s + orig[i], mixinKeyEncTab, '')[:32]
\* orig[i] raises IndexError for i >= len(orig); the reduce walks the whole
\* table before the slice, so every index of the table is read.
getMixinKey(orig) ==
    IF \E k \in 1..Len(mixinKeyEncTab) : mixinKeyEncTab[k] >= Len(orig)
    THEN Raised("IndexError")
    ELSE LET full == [k \in 1..Len(mixinKeyEncTab) |-> orig[mixinKeyEncTab[k] + 1]]
         IN  Returned(SubSeq(full, 1, Min(32, Len(full))))

(***************************************************************************)
(* encWbi                                                                  *)
(***************************************************************************)
\* parameter values are scalars: a str or an int
StrV(s) == [t |-> "str", s |-> s, n |-> 0]
IntV(n) == [t |-> "int", s |-> <<>>, n |-> n]

RECURSIVE Digits(_)
\* decimal digits of a non-negative int
Digits(n) == IF n < 10 THEN <<48 + n>> ELSE Digits(n \div 10) \o <<48 + (n % 10)>>

\* str(v)
pystr(v) == IF v.t = "int" THEN Digits(v.n) ELSE v.s

\* a < b for str, as Python compares them (code point by code point, a
\* proper prefix first)
RECURSIVE StrLess(_, _)
StrLess(a, b) ==
    IF b = <<>> THEN FALSE
    ELSE IF a = <<>> THEN TRUE
    ELSE IF Head(a) # Head(b) THEN Head(a) < Head(b)
    ELSE StrLess(Tail(a), Tail(b))

\* d[k] = v on an insertion-ordered dict: an existing key keeps its position
DictSet(d, k, v) ==
    IF \E i \in 1..Len(d) : d[i].k = k
    THEN [i \in 1..Len(d) |-> IF d[i].k = k THEN [k |-> k, v |-> v] ELSE d[i]]
    ELSE Append(d, [k |-> k, v |-> v])

RECURSIVE InsertItem(_, _)
\* insert item x into the sorted list s, after every item not greater than it
InsertItem(s, x) ==
    IF s = <<>> THEN <<x>>
    ELSE IF StrLess(x.k, Head(s).k) THEN <<x>> \o s
    ELSE <<Head(s)>> \o InsertItem(Tail(s), x)

RECURSIVE SortedItems(_)
\* a plausible slip: the sort of the items dropped
UnsortedItems(d) == d

\* sorted(params.items()): ascending by key (keys of a dict are distinct)
SortedItems(d) ==
    IF d = <<>> THEN <<>>
    ELSE InsertItem(SortedItems(SubSeq(d, 1, Len(d) - 1)), d[Len(d)])

\* the characters of "!'()*"
FilteredChars == {33, 39, 40, 41, 42}

\* ''.join(filter(lambda chr: chr not in "!'()*", str(v)))
FilterValue(v) == SelectSeq(pystr(v), LAMBDA c : c \notin FilteredChars)

\* characters urllib.parse.quote never encodes: letters, digits, "_.-~"
Unreserved == (48..57) \cup (65..90) \cup (97..122) \cup {95, 46, 45, 126}

HexDigit(n) == IF n < 10 THEN 48 + n ELSE 65 + (n - 10)

\* urllib.parse.quote(s, safe=''): %XX (upper-case hex) for every other character
QuoteChar(c) ==
    IF c \in Unreserved THEN <<c>>
    ELSE <<37, HexDigit(c \div 16), HexDigit(c % 16)>>

Quote(s) == Concat([i \in 1..Len(s) |-> QuoteChar(s[i])])

RECURSIVE JoinAmp(_)
\* '&'.join(parts)
JoinAmp(parts) ==
    IF parts = <<>> THEN <<>>
    ELSE IF Len(parts) = 1 THEN parts[1]
    ELSE parts[1] \o <<38>> \o JoinAmp(Tail(parts))

\* urllib.parse.urlencode(params, quote_via=urllib.parse.quote) of a dict
\* whose values are str
urlencode(d) ==
    JoinAmp([i \in 1..Len(d) |-> Quote(d[i].k) \o <<61>> \o Quote(d[i].v)])

RECURSIVE Fold15(_, _, _)
\* polynomial fold of s[lo..hi] modulo 2^15, by halves: h is the fold, p the
\* weight 31^(hi - lo + 1)
Fold15(s, lo, hi) ==
    IF lo > hi THEN [h |-> 0, p |-> 1]
    ELSE IF lo = hi THEN [h |-> s[lo] % 32768, p |-> 31]
    ELSE LET mid == (lo + hi) \div 2
             l == Fold15(s, lo, mid)
             r == Fold15(s, mid + 1, hi)
         IN  [h |-> (l.h * r.p + r.h) % 32768, p |-> (l.p * r.p) % 32768]

HexLower(n) == IF n < 10 THEN 48 + n ELSE 97 + (n - 10)

\* md5(data).hexdigest(): the library digest is stood for by a 15-bit
\* position-sensitive fold of the bytes, written in lower-case hexadecimal
md5hex(s) ==
    LET h == Fold15(s, 1, Len(s)).h
    IN  <<HexLower(h \div 4096), HexLower((h \div 256) % 16),
          HexLower((h \div 16) % 16), HexLower(h % 16)>>

NameWts == <<119, 116, 115>>            \* 'wts'
NameWRid == <<119, 95, 114, 105, 100>>  \* 'w_rid'

NoWbi == [ok |-> FALSE, err |-> "not called", params |-> <<>>, query |-> <<>>, w_rid |-> <<>>]

\* encWbi(params, img_key=ik, sub_key=sk) when round(time.time()) is t
encWbi(params, ik, sk, t) ==
    LET mixin_key == getMixinKey(ik \o sk)
        withWts == DictSet(params, NameWts, IntV(t))
        sorted == SortedItems(withWts)
        filtered == [i \in 1..Len(sorted) |->
                        [k |-> sorted[i].k, v |-> FilterValue(sorted[i].v)]]
        query == urlencode(filtered)
        wbi_sign == md5hex(query \o mixin_key.val)
    IN  IF ~mixin_key.ok
        THEN [ok |-> FALSE, err |-> mixin_key.err, params |-> <<>>,
              query |-> <<>>, w_rid |-> <<>>]
        ELSE [ok |-> TRUE, err |-> "",
              params |-> DictSet(filtered, NameWRid, wbi_sign),
              query |-> query, w_rid |-> wbi_sign]

(***************************************************************************)
(* The persisted store and flushConfig                                     *)
(***************************************************************************)
\* the request headers __init__ writes when it loads no file
DefaultHeader == "Mozilla/5.0 ... Referer: https://www.bilibili.com"

EmptyDoc == [f \in {} |-> 0]

NoFile == [exists |-> FALSE, doc |-> EmptyDoc]

\* user_info = {}; if os.path.exists(self.cfg): user_info = json.load(f)
ReadDoc(st) == IF st.exists THEN st.doc ELSE EmptyDoc

\* a plausible slip: the document replaced by kv instead of merged with it
MergeDocOverwrite(ui, kv) == kv

\* for k, v in kv.items(): user_info[k] = v
MergeDoc(ui, kv) ==
    [f \in (DOMAIN ui) \cup (DOMAIN kv) |->
        IF f \in DOMAIN kv THEN kv[f] ELSE ui[f]]

\* with open(self.cfg, 'w') as f: json.dump(user_info, f, indent=4)
WriteDoc(ui) == [exists |-> TRUE, doc |-> ui]

\* BiliDownloader.flushConfig(kv) on the store st, run without interruption
flushConfig(st, kv) == WriteDoc(MergeDoc(ReadDoc(st), kv))

(***************************************************************************)
(* Cookies, keys and time                                                  *)
(***************************************************************************)
CookieNames == {"SESSDATA", "buvid3"}
CookieValues == {"v1", "v2"}

EmptyJar == [n \in {} |-> ""]

\* the cookies an API response may set
ResponseJars == {EmptyJar} \cup [{"SESSDATA"} -> CookieValues]

\* the cookies the homepage may set
HomeJars == {EmptyJar, [n \in {"buvid3"} |-> "v1"]}

\* self.cookies.update(response.cookies)
CookiesUpdate(c, r) ==
    [n \in (DOMAIN c) \cup (DOMAIN r) |-> IF n \in DOMAIN r THEN r[n] ELSE c[n]]

\* characters of the drawn keys: 0-9 and a-z
KeyAlphabet == [i \in 1..36 |-> IF i <= 10 THEN 47 + i ELSE 86 + i]

\* a key of n characters
KeyString(n, a) == [i \in 1..n |-> KeyAlphabet[((a * i) % 36) + 1]]

\* key pairs the navigation endpoint may hand out (32 characters each)
KeyPairs == {<<KeyString(32, 1), KeyString(32, 5)>>, <<KeyString(32, 7), KeyString(32, 11)>>}

DaySeconds == 86400

\* how far the clock may advance in one step
TickSteps == {DaySeconds, 1}

\* a plausible slip: refresh at an age of exactly one day already
NeedKeysAtOneDay(ik, sk, lu, t) == ik = <<>> \/ sk = <<>> \/ (t - lu) >= DaySeconds

\* self.img_key == '' or self.sub_key == '' or (time.time() - self.last_update) > 86400
NeedKeys(ik, sk, lu, t) == ik = <<>> \/ sk = <<>> \/ (t - lu) > DaySeconds

(***************************************************************************)
(* __init__ and check_agent                                                *)
(***************************************************************************)
Fields == {"header", "cookies", "img_key", "sub_key", "last_update"}

NoCtor == [done |-> FALSE, cfgGiven |-> FALSE, loaded |-> FALSE, homeReq |-> FALSE,
           navReq |-> FALSE, raised |-> ""]

\* return values of the request operations
RetList(l) == [kind |-> "list", val |-> l]
RetStr(x) == [kind |-> "str", val |-> x]
RetNone == [kind |-> "none", val |-> <<>>]
RetData(d) == [kind |-> "data", val |-> d]
RetRaise(e) == [kind |-> "raise", val |-> e]

NoOp == [op |-> "none", signed |-> FALSE, keysNonEmpty |-> FALSE, keyAge |-> 0,
         status |-> 0, code |-> 0, hasData |-> FALSE, audio |-> <<>>, ret |-> RetNone]

\* the object is gone: its fields hold nothing
NoObject ==
    /\ requestHeader' = ""
    /\ cookies' = EmptyJar
    /\ img_key' = <<>>
    /\ sub_key' = <<>>
    /\ last_update' = 0

\* BiliDownloader(cfg): cfgGiven tells whether cfg names the store or is None
\* (then self.cfg = 'userinfo.json', the same file, and it is never loaded);
\* home is the cookie jar of the homepage response, navOk whether the
\* navigation response passes raise_for_status(), kp the keys it carries.
Construct(cfgGiven, home, navOk, kp) ==
    /\ phase = "none"
    /\ LET load == cfgGiven /\ store.exists
           \* user_info['header'] ... user_info['last_update']
           loadable == Fields \subseteq DOMAIN store.doc
           hdr0 == IF load THEN store.doc["header"] ELSE DefaultHeader
           ck0 == IF load THEN store.doc["cookies"] ELSE EmptyJar
           ik0 == IF load THEN store.doc["img_key"] ELSE <<>>
           sk0 == IF load THEN store.doc["sub_key"] ELSE <<>>
           lu0 == IF load THEN store.doc["last_update"] ELSE 0
           \* check_agent
           needHome == DOMAIN ck0 = {}
           ck1 == IF needHome THEN home ELSE ck0
           needKeys == NeedKeys(ik0, sk0, lu0, now)
           kv0 == IF load THEN EmptyDoc ELSE "header" :> hdr0
           kv1 == IF needHome THEN "cookies" :> ck1 ELSE EmptyDoc
           kv2 == IF needKeys
                  THEN ("img_key" :> kp[1]) @@ ("sub_key" :> kp[2]) @@ ("last_update" :> now)
                  ELSE EmptyDoc
           st0 == IF load THEN store ELSE flushConfig(store, kv0)
           st1 == IF needHome THEN flushConfig(st0, kv1) ELSE st0
           st2 == IF needKeys THEN flushConfig(st1, kv2) ELSE st1
       IN  IF load /\ ~loadable
           THEN \* json document lacks a field: KeyError out of __init__
                /\ phase' = "failed"
                /\ ctor' = [done |-> TRUE, cfgGiven |-> cfgGiven, loaded |-> FALSE,
                            homeReq |-> FALSE, navReq |-> FALSE, raised |-> "KeyError"]
                /\ NoObject
                /\ flushed' = EmptyDoc
                /\ UNCHANGED store
           ELSE IF needKeys /\ ~navOk
           THEN \* getWbiKeys: resp.raise_for_status() raises out of __init__
                /\ phase' = "failed"
                /\ ctor' = [done |-> TRUE, cfgGiven |-> cfgGiven, loaded |-> load,
                            homeReq |-> needHome, navReq |-> TRUE, raised |-> "HTTPError"]
                /\ NoObject
                /\ store' = st1
                /\ flushed' = kv0 @@ kv1
           ELSE /\ phase' = "ready"
                /\ ctor' = [done |-> TRUE, cfgGiven |-> cfgGiven, loaded |-> load,
                            homeReq |-> needHome, navReq |-> needKeys, raised |-> ""]
                /\ requestHeader' = hdr0
                /\ cookies' = ck1
                /\ img_key' = IF needKeys THEN kp[1] ELSE ik0
                /\ sub_key' = IF needKeys THEN kp[2] ELSE sk0
                /\ last_update' = IF needKeys THEN now ELSE lu0
                /\ store' = st2
                /\ flushed' = kv0 @@ kv1 @@ kv2
    /\ last' = NoOp
    /\ UNCHANGED <<now, ticks, signVars, concVars>>

\* the process ends; the store stays
Restart ==
    /\ phase \in {"ready", "failed"}
    /\ phase' = "none"
    /\ NoObject
    /\ ctor' = NoCtor
    /\ last' = NoOp
    /\ flushed' = EmptyDoc
    /\ UNCHANGED <<store, now, ticks, signVars, concVars>>

\* time passes
Tick(dt) ==
    /\ ticks < MaxTicks
    /\ ticks' = ticks + 1
    /\ now' = now + dt
    /\ ctor' = NoCtor
    /\ last' = NoOp
    /\ flushed' = EmptyDoc
    /\ UNCHANGED <<store, phase, memVars, signVars, concVars>>

(***************************************************************************)
(* The five request operations                                             *)
(***************************************************************************)
StatusCodes == {200, 500}

Item(k, v) == [k |-> k, v |-> v]

\* {'search_type': 'video', 'keyword': title, 'page': 1}
SearchParams(title) ==
    << Item(<<115, 101, 97, 114, 99, 104, 95, 116, 121, 112, 101>>, StrV(<<118, 105, 100, 101, 111>>)),
       Item(<<107, 101, 121, 119, 111, 114, 100>>, StrV(title)),
       Item(<<112, 97, 103, 101>>, IntV(1)) >>

\* {'bvid': bvid, 'cid': cid, 'fnval': 16, 'qn': 64}
AudioParams(bvid, cid) ==
    << Item(<<98, 118, 105, 100>>, StrV(bvid)),
       Item(<<99, 105, 100>>, IntV(cid)),
       Item(<<102, 110, 118, 97, 108>>, IntV(16)),
       Item(<<113, 110>>, IntV(64)) >>

\* {'media_id': fid, 'ps': ps, 'pn': page}
FavParams(fid, page, ps) ==
    << Item(<<109, 101, 100, 105, 97, 95, 105, 100>>, IntV(fid)),
       Item(<<112, 115>>, IntV(ps)),
       Item(<<112, 110>>, IntV(page)) >>

\* {'up_mid': uid}
UserFavParams(uid) == << Item(<<117, 112, 95, 109, 105, 100>>, IntV(uid)) >>

ArgTitle == <<99, 97, 116, 32, 118, 105, 100, 101, 111>>               \* 'cat video'
ArgBvid == <<66, 86, 49, 120, 120, 52, 49, 49, 99, 55, 109, 68>>        \* 'BV1xx411c7mD'

\* JSON bodies: the application status code, and "data" when present
Body(code, hasData, data) == [code |-> code, hasData |-> hasData, data |-> data]

AppCodes == {0, -412}

EmOpen == "<em class=\"keyword\">"
EmClose == "</em>"

\* search results as the server lists them; a title is a list of text pieces
SearchPayloads ==
    { <<>>,
      << [title |-> <<EmOpen, "cat", EmClose, " video">>, bvid |-> "BV1", author |-> "up1",
          description |-> "d1", mid |-> 7] >> }

\* result['title'].replace('<em class="keyword">', '').replace('</em>', '') and
\* the four projected fields
SearchProject(results) ==
    [i \in 1..Len(results) |->
        [title |-> SelectSeq(results[i].title, LAMBDA piece : piece \notin {EmOpen, EmClose}),
         bvid |-> results[i].bvid,
         author |-> results[i].author,
         description |-> results[i].description]]

PagePayloads ==
    { <<>>,
      << [cid |-> 11, page |-> 1, part |-> "p1", duration |-> 60, first_frame |-> "f1"],
         [cid |-> 12, page |-> 2, part |-> "p2", duration |-> 90, first_frame |-> "f2"] >> }

\* page.append({'cid', 'page', 'part', 'duration'}) for each page, in order
PagesProject(pages) ==
    [i \in 1..Len(pages) |->
        [cid |-> pages[i].cid, page |-> pages[i].page, part |-> pages[i].part,
         duration |-> pages[i].duration]]

Bandwidths == {100, 500}
Urls == <<"u1", "u2", "u3", "u4", "u5">>

\* resp_json["data"]["dash"]["audio"]: the variant at position i has URL Urls[i]
AudioLists ==
    UNION {{[i \in 1..n |-> [bandwidth |-> b[i], baseUrl |-> Urls[i]]] :
                b \in [1..n -> Bandwidths]} : n \in 0..MaxAudio}

FavPayloads == {"favdata1", "favdata2"}

\* the JSON bodies a response may carry: a success with its payload, or an
\* application-level error, which has a code and a message and no "data"
Bodies(payloads) ==
    {Body(0, TRUE, d) : d \in payloads} \cup {Body(c, FALSE, <<>>) : c \in AppCodes \ {0}}

RECURSIVE InsertDesc(_, _)
\* insert x into the descending list s behind every item of at least its bandwidth
InsertDesc(s, x) ==
    IF s = <<>> THEN <<x>>
    ELSE IF Head(s).bandwidth < x.bandwidth THEN <<x>> \o s
    ELSE <<Head(s)>> \o InsertDesc(Tail(s), x)

RECURSIVE InsertDescFront(_, _)
InsertDescFront(s, x) ==
    IF s = <<>> THEN <<x>>
    ELSE IF Head(s).bandwidth <= x.bandwidth THEN <<x>> \o s
    ELSE <<Head(s)>> \o InsertDescFront(Tail(s), x)

RECURSIVE SortedByBandwidthRev(_)
\* a plausible slip: sorted(...)[::-1], which turns the order of ties around
SortedByBandwidthRev(l) ==
    IF l = <<>> THEN <<>>
    ELSE InsertDescFront(SortedByBandwidthRev(SubSeq(l, 1, Len(l) - 1)), l[Len(l)])

RECURSIVE SortedByBandwidth(_)
\* sorted(l, key=lambda x: x["bandwidth"], reverse=True): descending, and
\* stable (items of equal bandwidth keep their order)
SortedByBandwidth(l) ==
    IF l = <<>> THEN <<>>
    ELSE InsertDesc(SortedByBandwidth(SubSeq(l, 1, Len(l) - 1)), l[Len(l)])

\* the record of an operation: how it was signed, what came back, what it returned
OpRec(op, signed, status, body, audio, ret) ==
    [op |-> op, signed |-> signed,
     keysNonEmpty |-> signed /\ img_key # <<>> /\ sub_key # <<>>,
     keyAge |-> IF signed THEN now - last_update ELSE 0,
     status |-> status, code |-> body.code, hasData |-> body.hasData,
     audio |-> audio, ret |-> ret]

NoBody == Body(0, FALSE, <<>>)

\* encWbi raised before any request was made
SignFailed(op, sig) ==
    /\ last' = OpRec(op, FALSE, 0, NoBody, <<>>, RetRaise(sig.err))
    /\ flushed' = EmptyDoc
    /\ UNCHANGED <<store, cookies>>

\* the early return on response.status_code != 200
HttpFailed(op, signed, status, ret) ==
    /\ last' = OpRec(op, signed, status, NoBody, <<>>, ret)
    /\ flushed' = EmptyDoc
    /\ UNCHANGED <<store, cookies>>

\* self.cookies.update(response.cookies); self.flushConfig({'cookies': self.cookies})
UpdateAndFlush(jar) ==
    /\ cookies' = CookiesUpdate(cookies, jar)
    /\ store' = flushConfig(store, "cookies" :> cookies')
    /\ flushed' = "cookies" :> cookies'

OpFrame ==
    /\ ctor' = NoCtor
    /\ UNCHANGED <<phase, requestHeader, img_key, sub_key, last_update, now, ticks, signVars, concVars>>

\* Each operation draws the response it gets: the status, the cookies the
\* response sets and the JSON body.  requests.get is taken to deliver a
\* response (no transport exception), and the dumps of the body to
\* bili/bvid_resp.json and bili/cid_resp.json to succeed; they touch no state
\* of the object or of the store.

search_by_title(title) ==
    /\ phase = "ready"
    /\ LET sig == encWbi(SearchParams(title), img_key, sub_key, now)
       IN  IF ~sig.ok THEN SignFailed("search_by_title", sig)
           ELSE \E status \in StatusCodes :
                  IF status # 200
                  THEN HttpFailed("search_by_title", TRUE, status, RetList(<<>>))
                  ELSE \E jar \in ResponseJars, body \in Bodies(SearchPayloads) :
                         /\ UpdateAndFlush(jar)
                         /\ last' = OpRec("search_by_title", TRUE, status, body, <<>>,
                                      \* resp_json["data"]["result"], whatever "code" says
                                      IF ~body.hasData THEN RetRaise("KeyError")
                                      ELSE RetList(SearchProject(body.data)))
    /\ OpFrame

get_pages_cid(bvid) ==
    /\ phase = "ready"
    /\ \E status \in StatusCodes :
         IF status # 200 THEN HttpFailed("get_pages_cid", FALSE, status, RetStr(""))
         ELSE \E jar \in ResponseJars, body \in Bodies(PagePayloads) :
                \* self.cookies.update(response.cookies), and no flushConfig
                /\ cookies' = CookiesUpdate(cookies, jar)
                /\ flushed' = EmptyDoc
                /\ UNCHANGED store
                /\ last' = OpRec("get_pages_cid", FALSE, status, body, <<>>,
                                 IF body.code # 0 THEN RetList(<<>>)
                                 ELSE RetList(PagesProject(body.data)))
    /\ OpFrame

get_audio_link(bvid, cid) ==
    /\ phase = "ready"
    /\ LET sig == encWbi(AudioParams(bvid, cid), img_key, sub_key, now)
       IN  IF ~sig.ok THEN SignFailed("get_audio_link", sig)
           ELSE \E status \in StatusCodes :
                  IF status # 200
                  THEN HttpFailed("get_audio_link", TRUE, status, RetStr(""))
                  ELSE \E jar \in ResponseJars, body \in Bodies(AudioLists) :
                         LET dash_list == SortedByBandwidth(body.data)
                         IN  /\ UpdateAndFlush(jar)
                             /\ last' = OpRec("get_audio_link", TRUE, status, body, body.data,
                                          \* resp_json["data"]["dash"]["audio"], whatever "code" says
                                          IF ~body.hasData THEN RetRaise("KeyError")
                                          ELSE IF Len(dash_list) <= 0 THEN RetStr("")
                                          ELSE RetStr(dash_list[1].baseUrl))
    /\ OpFrame

get_favorites(fid, page, ps) ==
    /\ phase = "ready"
    /\ LET sig == encWbi(FavParams(fid, page, ps), img_key, sub_key, now)
       IN  IF ~sig.ok THEN SignFailed("get_favorites", sig)
           ELSE \E status \in StatusCodes :
                  IF status # 200
                  THEN HttpFailed("get_favorites", TRUE, status, RetStr(""))
                  ELSE \E jar \in ResponseJars, body \in Bodies(FavPayloads) :
                         /\ UpdateAndFlush(jar)
                         /\ last' = OpRec("get_favorites", TRUE, status, body, <<>>,
                                      IF body.code # 0 THEN RetNone ELSE RetData(body.data))
    /\ OpFrame

get_user_favs(uid) ==
    /\ phase = "ready"
    /\ LET sig == encWbi(UserFavParams(uid), img_key, sub_key, now)
       IN  IF ~sig.ok THEN SignFailed("get_user_favs", sig)
           ELSE \E status \in StatusCodes :
                  IF status # 200
                  THEN HttpFailed("get_user_favs", TRUE, status, RetStr(""))
                  ELSE \E jar \in ResponseJars, body \in Bodies(FavPayloads) :
                         /\ UpdateAndFlush(jar)
                         /\ last' = OpRec("get_user_favs", TRUE, status, body, <<>>,
                                      IF body.code # 0 THEN RetNone ELSE RetData(body.data))
    /\ OpFrame

(***************************************************************************)
(* Spec: one client, its store, the clock                                  *)
(***************************************************************************)
SignIdle ==
    /\ img_key_arg = <<>>
    /\ sub_key_arg = <<>>
    /\ paramsA = <<>>
    /\ paramsB = <<>>
    /\ curr_time = 0
    /\ mixRes = NotCalled
    /\ wbiA = NoWbi
    /\ wbiB = NoWbi

ClientIdle ==
    /\ store = NoFile
    /\ phase = "none"
    /\ requestHeader = ""
    /\ cookies = EmptyJar
    /\ img_key = <<>>
    /\ sub_key = <<>>
    /\ last_update = 0
    /\ now = 1700000000
    /\ ticks = 0
    /\ ctor = NoCtor
    /\ last = NoOp
    /\ flushed = EmptyDoc

Objects == {1, 2}

ConcIdle ==
    /\ fpc = [o \in Objects |-> "idle"]
    /\ user_info = [o \in Objects |-> EmptyDoc]
    /\ kvArg = [o \in Objects |-> EmptyDoc]
    /\ flushes = 0
    /\ acked = EmptyDoc
    /\ lastKv = EmptyDoc

Init == SignIdle /\ ClientIdle /\ ConcIdle

DoConstruct ==
    \E cfgGiven \in BOOLEAN, home \in HomeJars, navOk \in BOOLEAN, kp \in KeyPairs :
        Construct(cfgGiven, home, navOk, kp)

DoTick == \E dt \in TickSteps : Tick(dt)

DoSearch == search_by_title(ArgTitle)

DoPages == get_pages_cid(ArgBvid)

DoAudio == get_audio_link(ArgBvid, 11)

DoFavorites == get_favorites(42, 1, 20)

DoUserFavs == get_user_favs(7)

Next ==
    \/ DoConstruct
    \/ Restart
    \/ DoTick
    \/ DoSearch
    \/ DoPages
    \/ DoAudio
    \/ DoFavorites
    \/ DoUserFavs

Spec == Init /\ [][Next]_vars

(***************************************************************************)
(* SpecConc: two objects flushing to one store                             *)
(***************************************************************************)
\* the arguments the code passes to flushConfig
KvHeader == {"header" :> DefaultHeader}
KvCookies == {"cookies" :> j : j \in ResponseJars}
KvKeys ==
    {("img_key" :> kp[1]) @@ ("sub_key" :> kp[2]) @@ ("last_update" :> 1700000000) :
        kp \in KeyPairs}

FlushArgs == KvHeader \cup KvCookies \cup KvKeys

\* flushConfig up to the end of its read of the file: nothing is locked
FlushRead(o, kv) ==
    /\ fpc[o] = "idle"
    /\ flushes < MaxFlushes
    /\ flushes' = flushes + 1
    /\ user_info' = [user_info EXCEPT ![o] = ReadDoc(store)]
    /\ kvArg' = [kvArg EXCEPT ![o] = kv]
    /\ fpc' = [fpc EXCEPT ![o] = "merge"]
    /\ UNCHANGED <<store, acked, lastKv>>

\* a plausible slip the other way: the file read again at the time of the write
WriteBackFresh(st, ui, kv) == flushConfig(st, kv)

\* the rest of flushConfig: the local user_info, merged with kv, replaces the
\* file, whatever the file (st) holds by now
WriteBack(st, ui, kv) == WriteDoc(MergeDoc(ui, kv))

FlushWrite(o) ==
    /\ fpc[o] = "merge"
    /\ store' = WriteBack(store, user_info[o], kvArg[o])
    /\ fpc' = [fpc EXCEPT ![o] = "idle"]
    /\ acked' = MergeDoc(acked, kvArg[o])
    /\ lastKv' = kvArg[o]
    /\ UNCHANGED <<user_info, kvArg, flushes>>

DoFlushRead ==
    \E o \in Objects, kv \in FlushArgs :
        FlushRead(o, kv) /\ UNCHANGED <<signVars, phase, memVars, now, ticks, ctor, last, flushed>>

DoFlushWrite ==
    \E o \in Objects :
        FlushWrite(o) /\ UNCHANGED <<signVars, phase, memVars, now, ticks, ctor, last, flushed>>

InitConc == SignIdle /\ ClientIdle /\ ConcIdle

NextConc == DoFlushRead \/ DoFlushWrite

SpecConc == InitConc /\ [][NextConc]_vars

(***************************************************************************)
(* SpecSign: the signing functions applied to drawn arguments              *)
(***************************************************************************)
ImgKeys == {KeyString(n, a) : n \in {0} \cup ((MaxKeyLen - 2)..MaxKeyLen), a \in {1, 7}}
SubKeys == {KeyString(n, 5) : n \in {0, 31, 32}}

ParamNames == {<<97>>, <<97, 98>>, NameWts, <<120>>}    \* 'a', 'ab', 'wts', 'x'
ParamValues == {StrV(<<98, 33, 32, 99>>), IntV(16)}      \* 'b! c', 16
Timestamps == {5, 1700000000}

Items == [k : ParamNames, v : ParamValues]

Range(f) == {f[i] : i \in DOMAIN f}

\* insertion-ordered dicts of n items: no name twice
Dicts(n) == {d \in [1..n -> Items] : \A i, j \in 1..n : d[i].k = d[j].k => i = j}

InitSign ==
    /\ img_key_arg \in ImgKeys
    /\ sub_key_arg \in SubKeys
    /\ curr_time \in Timestamps
    /\ \E n \in 0..MaxParams :
         /\ paramsA \in Dicts(n)
         /\ paramsB \in {d \in Dicts(n) : Range(d) = Range(paramsA)}
    /\ mixRes = NotCalled
    /\ wbiA = NoWbi
    /\ wbiB = NoWbi
    /\ ClientIdle
    /\ ConcIdle

GetMixinKeyCall ==
    /\ mixRes = NotCalled
    /\ mixRes' = getMixinKey(img_key_arg \o sub_key_arg)
    /\ UNCHANGED <<img_key_arg, sub_key_arg, paramsA, paramsB, curr_time, wbiA, wbiB, clientVars, concVars>>

EncWbiCall ==
    /\ wbiA = NoWbi
    /\ wbiA' = encWbi(paramsA, img_key_arg, sub_key_arg, curr_time)
    /\ wbiB' = encWbi(paramsB, img_key_arg, sub_key_arg, curr_time)
    /\ UNCHANGED <<img_key_arg, sub_key_arg, paramsA, paramsB, curr_time, mixRes, clientVars, concVars>>

NextSign == GetMixinKeyCall \/ EncWbiCall

SpecSign == InitSign /\ [][NextSign]_vars

(***************************************************************************)
(* C8                                                                      *)
(***************************************************************************)
MixOrig == img_key_arg \o sub_key_arg

\* C8: getMixinKey of a concatenation of at least 64 characters returns
\* exactly 32 characters, the k-th (k = 0..31) being the character of the
\* concatenation at index mixinKeyEncTab[k]; of a shorter concatenation it
\* raises IndexError and returns no key.
C8_MixinKey ==
    mixRes # NotCalled =>
        /\ Len(MixOrig) >= 64 =>
              /\ mixRes.ok
              /\ Len(mixRes.val) = 32
              /\ \A k \in 0..31 : mixRes.val[k + 1] = MixOrig[mixinKeyEncTab[k + 1] + 1]
        /\ Len(MixOrig) < 64 =>
              /\ ~mixRes.ok
              /\ mixRes.err = "IndexError"
              /\ mixRes.val = <<>>

\* a key was returned for a long enough concatenation
C8_Witness == mixRes.ok /\ Len(MixOrig) > 64 /\ Len(mixRes.val) = 32

(***************************************************************************)
(* C7                                                                      *)
(***************************************************************************)
\* the names in a canonical parameter list ascend strictly
Ascending(d) == \A i \in 1..(Len(d) - 1) : StrLess(d[i].k, d[i + 1].k)

\* the parameter list without its trailing w_rid item
WithoutWRid(d) == SelectSeq(d, LAMBDA it : it.k # NameWRid)

\* C7: for a fixed timestamp and key pair, two parameter dicts holding the
\* same name-to-value pairs in different insertion orders get the same
\* canonical query and the same w_rid, and the signed parameters (wts
\* included) are listed in ascending order of name.
C7_OrderIndependent ==
    wbiA # NoWbi =>
        /\ wbiA.ok = wbiB.ok
        /\ wbiA.query = wbiB.query
        /\ wbiA.w_rid = wbiB.w_rid
        /\ wbiA.ok =>
              /\ Ascending(WithoutWRid(wbiA.params))
              /\ \E i \in 1..Len(wbiA.params) : wbiA.params[i].k = NameWts
              /\ wbiA.query = urlencode(WithoutWRid(wbiA.params))

\* two different insertion orders were signed
C7_Witness ==
    /\ wbiA.ok /\ wbiB.ok
    /\ paramsA # paramsB
    /\ Len(paramsA) >= 2
    /\ wbiA.w_rid = wbiB.w_rid

(***************************************************************************)
(* Claims about the client (Spec)                                          *)
(***************************************************************************)
SignedOps == {"search_by_title", "get_audio_link", "get_favorites", "get_user_favs"}

\* the neutral value of the declared result type of the last operation
ReturnedNeutral ==
    /\ last.op \in {"search_by_title", "get_pages_cid"} =>
          last.ret.kind = "list" /\ last.ret.val = <<>>
    /\ last.op = "get_audio_link" => last.ret.kind = "str" /\ last.ret.val = ""
    /\ last.op \in {"get_favorites", "get_user_favs"} => last.ret.kind = "none"

\* C1: on a non-success HTTP status each of the five operations returns,
\* without raising, the neutral value of its declared result type: an empty
\* list (search, get-pages), an empty string (get-audio-link), none
\* (get-favorites, get-user-favs).
C1_NeutralOnHttpError ==
    (last.op # "none" /\ last.status \notin {0, 200}) => ReturnedNeutral

\* C2: on a success status with an application-level code other than zero,
\* each of the five operations returns its neutral result, neither raising
\* nor projecting the payload.
C2_NeutralOnAppError ==
    (last.op # "none" /\ last.status = 200 /\ last.code # 0) => ReturnedNeutral

\* C3: at every signed request both signing keys are non-empty and were
\* refreshed at most 86400 seconds before the request.
C3_KeysFreshAtRequest ==
    (last.op \in SignedOps /\ last.signed) =>
        (last.keysNonEmpty /\ last.keyAge <= 86400)

\* C4: after every request operation that returns, the cookies field of the
\* store equals the in-memory session cookies.
C4_CookiesPersisted ==
    (last.op # "none" /\ last.ret.kind # "raise") =>
        (store.exists /\ "cookies" \in DOMAIN store.doc /\ store.doc["cookies"] = cookies)

\* C5: flushConfig(kv) is a merge: afterwards every field named in kv holds
\* the value given in kv, every other field of the store holds the value it
\* had before, and a store that did not exist holds exactly the fields of kv.
C5_FlushMerges ==
    [][DOMAIN flushed' # {} =>
          LET before == ReadDoc(store)
              after == store'.doc
          IN  /\ store'.exists
              /\ DOMAIN after = (DOMAIN before) \cup (DOMAIN flushed')
              /\ \A f \in DOMAIN flushed' : after[f] = flushed'[f]
              /\ \A f \in (DOMAIN before) \ (DOMAIN flushed') : after[f] = before[f]
              /\ ~store.exists => DOMAIN after = DOMAIN flushed']_vars

\* a request operation flushed the cookies into a store holding all five fields
C5_Witness ==
    /\ last.op \in SignedOps
    /\ DOMAIN flushed = {"cookies"}
    /\ DOMAIN store.doc = Fields
    /\ DOMAIN store.doc["cookies"] # {}
    /\ store.doc["img_key"] # <<>>

\* C6: get_audio_link, on a successful response, returns the URL of a
\* variant of maximal bandwidth, the first such variant in the server's
\* order; with no variants it returns the empty string.
C6_HighestBandwidthFirst ==
    (last.op = "get_audio_link" /\ last.status = 200 /\ last.hasData) =>
        /\ last.ret.kind = "str"
        /\ last.audio = <<>> => last.ret.val = ""
        /\ last.audio # <<>> =>
              \E i \in 1..Len(last.audio) :
                  /\ last.ret.val = last.audio[i].baseUrl
                  /\ \A j \in 1..Len(last.audio) :
                        last.audio[j].bandwidth <= last.audio[i].bandwidth
                  /\ \A j \in 1..(i - 1) :
                        last.audio[j].bandwidth < last.audio[i].bandwidth

\* two variants tie for the maximum and the first of them was returned
C6_Witness ==
    /\ last.op = "get_audio_link"
    /\ last.status = 200
    /\ Len(last.audio) = 2
    /\ last.audio[1].bandwidth = last.audio[2].bandwidth
    /\ last.ret.kind = "str"
    /\ last.ret.val = last.audio[1].baseUrl

ChangedSinceRead(o) ==
    {f \in (DOMAIN ReadDoc(store)) \ (DOMAIN kvArg[o]) :
        f \notin DOMAIN user_info[o] \/ user_info[o][f] # store.doc[f]}

\* C9: flushConfig's read and write-back are separate, unlocked steps: a
\* field another object flushed between the two is put back to the value
\* read (or removed, if it was not there), so its update is lost.
C9_LostUpdate ==
    [][\A o \in Objects :
          (fpc[o] = "merge" /\ fpc'[o] = "idle") =>
              \A f \in ChangedSinceRead(o) :
                  IF f \in DOMAIN user_info[o]
                  THEN store'.doc[f] = user_info[o][f] /\ store'.doc[f] # store.doc[f]
                  ELSE f \notin DOMAIN store'.doc]_vars

\* no flush is running, and a field does not hold the value of the latest
\* completed flush that named it: the latest write was of a different field
C9_Witness ==
    /\ \A o \in Objects : fpc[o] = "idle"
    /\ \E f \in DOMAIN acked :
          /\ f \notin DOMAIN lastKv
          /\ f \in DOMAIN store.doc
          /\ store.doc[f] # acked[f]

====
